---- MODULE Spec2Model ----
(***************************************************************************)
(* State-machine model of the iqoptionbot decision core:                   *)
(*   trade.py       TradingState, the signal strategies, execute_trades    *)
(*   indicators.py  calculate_indicators, get_candles_with_retry, caches   *)
(*                                                                         *)
(* Units.  Money is in cents.  A trade percentage is in basis points       *)
(* (1/100 of a percent), so 5% is 500.  Time is in seconds.  Prices and    *)
(* indicator values are integers.  The source computes in binary floating  *)
(* point; the model computes the same expressions exactly.                 *)
(***************************************************************************)
EXTENDS Integers, Sequences, FiniteSets, TLC

VARIABLES
    trading_state,   \* trade.py:82, the module-wide TradingState instance
    candle_cache,    \* indicators.py:23, key -> [candles, t]
    pc,              \* position of the main loop / execute_trades
    now,             \* execute_trades: now = int(time.time())
    assets,          \* execute_trades: the instrument list of this cycle
    indicators,      \* execute_trades: the indicator batch of this cycle
    idx,             \* loop position in the monitoring / entry loop
    to_remove,       \* execute_trades: orders marked for removal
    clock,           \* wall clock, seconds
    next_id,         \* next order id the broker hands out
    cycles,          \* number of trading cycles started
    calls,           \* amount of work done so far, against the bounds
    gate,            \* harness observation: the last check_daily_loss_limit
    start_time_cycle,\* main.py:92, the time the current cycle started
    buy_log,         \* observation: the last client.buy call of this cycle
    pass_log,        \* observation: the current monitoring pass
    calc,            \* harness observation: the last calculate_indicators call
    batch_log,       \* harness observation: batch key -> first call in its TTL
    sig,             \* signal harness: snapshot, price and result
    conn,            \* observation: the connection check the last step made
    op,              \* observation: the operation the last step applied
    STRATEGY,        \* settings.STRATEGY, fixed for a run
    MACD_INDICATOR   \* settings.MACD_INDICATOR, fixed for a run

vars == <<trading_state, candle_cache, pc, now, assets, indicators, idx,
          to_remove, clock, next_id, cycles, calls, gate, start_time_cycle,
          buy_log, pass_log, calc, batch_log, sig, conn, op, STRATEGY,
          MACD_INDICATOR>>

----------------------------------------------------------------------------
(* Bounds of the model.                                                    *)

\* Number of entry-loop iterations (instruments handed to execute_trades)
\* a run of the main loop is followed for, over all its cycles.
MaxEntries == 2
\* Number of TradingState method calls a harness run applies.
MaxCalls == 5
\* Number of instruments a calculate_indicators harness run processes in
\* all (a call with an empty list counts as one).
MaxWork == 4

----------------------------------------------------------------------------
(* Configuration (settings.py is imported by the sources but is not part   *)
(* of them; the values are one admissible configuration).                  *)

TRADE_PERCENTAGE == 500
TRADE_PERCENTAGE_MIN == 400
TRADE_PERCENTAGE_MAX == 600
DAILY_LOSS_LIMIT == 10
CONSECUTIVE_LOSSES_THRESHOLD == 2
CONSECUTIVE_WINS_THRESHOLD == 2
TRADE_COOLDOWN == 60
RSI_BUY_THRESHOLD == 30
RSI_SELL_THRESHOLD == 70
STOCHASTIC_BUY_THRESHOLD == 20
STOCHASTIC_SELL_THRESHOLD == 80

\* Python's None, and a floating-point NaN.
None == -999
NaN == -998

\* One day, trade.py:149.
DAY == 86400
\* Hard-coded streak limit of the daily-loss gate, trade.py:76.
GATE_LOSSES == 3
\* Clamp bounds of the order amount in cents, trade.py:230.
AMOUNT_MIN == 100
AMOUNT_MAX == 500000

Max(a, b) == IF a >= b THEN a ELSE b
Min(a, b) == IF a <= b THEN a ELSE b

\* dict.get(key, default)
Get(d, k, default) == IF k \in DOMAIN d THEN d[k] ELSE default

----------------------------------------------------------------------------
(* TradingState, trade.py:18-80.                                           *)

\* __init__
TradingState ==
    [ open_orders |-> << >>,
      last_trade_time |-> << >>,
      daily_loss |-> 0,
      initial_daily_balance |-> 0,
      last_reset_time |-> None,
      consecutive_losses |-> 0,
      consecutive_wins |-> 0,
      current_trade_percentage |-> TRADE_PERCENTAGE ]

reset_daily(ts, balance, current_time) ==
    [ ts EXCEPT !.daily_loss = 0,
                !.initial_daily_balance = balance,
                !.last_reset_time = current_time,
                !.consecutive_losses = 0,
                !.consecutive_wins = 0,
                !.current_trade_percentage = TRADE_PERCENTAGE ]

add_order(ts, order_details) ==
    [ ts EXCEPT !.open_orders = Append(@, order_details) ]

\* list.remove: drops the first equal element; a missing element raises
\* ValueError, which remove_order catches.
RECURSIVE ListRemove(_, _)
ListRemove(s, x) ==
    IF s = << >> THEN << >>
    ELSE IF Head(s) = x THEN Tail(s)
    ELSE << Head(s) >> \o ListRemove(Tail(s), x)

remove_order(ts, order) ==
    [ ts EXCEPT !.open_orders = ListRemove(@, order) ]

update_trade_time_Skipped(ts, asset, current_time) == ts

update_trade_time(ts, asset, current_time) ==
    [ ts EXCEPT !.last_trade_time =
        [ a \in DOMAIN @ \cup {asset} |->
            IF a = asset THEN current_time ELSE @[a] ] ]

update_loss_NoWinReset(ts, amount) ==
    [ ts EXCEPT !.daily_loss = @ + amount,
                !.consecutive_losses = @ + 1 ]

update_loss(ts, amount) ==
    [ ts EXCEPT !.daily_loss = @ + amount,
                !.consecutive_losses = @ + 1,
                !.consecutive_wins = 0 ]

update_win(ts, profit) ==
    [ ts EXCEPT !.daily_loss = @ - profit,
                !.consecutive_wins = @ + 1,
                !.consecutive_losses = 0 ]

\* max(TRADE_PERCENTAGE_MIN, old * 0.3)
ShrinkPercentage(old) ==
    IF old * 3 <= TRADE_PERCENTAGE_MIN * 10
    THEN TRADE_PERCENTAGE_MIN
    ELSE (old * 3) \div 10

\* min(TRADE_PERCENTAGE_MAX, old * 1.2)
GrowPercentage(old) ==
    IF old * 12 >= TRADE_PERCENTAGE_MAX * 10
    THEN TRADE_PERCENTAGE_MAX
    ELSE (old * 12) \div 10

adjust_trade_percentage_KeepsElse(ts) ==
    LET old == ts.current_trade_percentage IN
    IF ts.consecutive_losses >= CONSECUTIVE_LOSSES_THRESHOLD
    THEN [ ts EXCEPT !.current_trade_percentage = ShrinkPercentage(old) ]
    ELSE IF ts.consecutive_wins >= CONSECUTIVE_WINS_THRESHOLD
    THEN [ ts EXCEPT !.current_trade_percentage = GrowPercentage(old) ]
    ELSE ts

adjust_trade_percentage_NoFloor(ts) ==
    LET old == ts.current_trade_percentage IN
    IF ts.consecutive_losses >= CONSECUTIVE_LOSSES_THRESHOLD
    THEN [ ts EXCEPT !.current_trade_percentage = (old * 3) \div 10 ]
    ELSE IF ts.consecutive_wins >= CONSECUTIVE_WINS_THRESHOLD
    THEN [ ts EXCEPT !.current_trade_percentage = GrowPercentage(old) ]
    ELSE [ ts EXCEPT !.current_trade_percentage = TRADE_PERCENTAGE ]

adjust_trade_percentage(ts) ==
    LET old == ts.current_trade_percentage IN
    IF ts.consecutive_losses >= CONSECUTIVE_LOSSES_THRESHOLD
    THEN [ ts EXCEPT !.current_trade_percentage = ShrinkPercentage(old) ]
    ELSE IF ts.consecutive_wins >= CONSECUTIVE_WINS_THRESHOLD
    THEN [ ts EXCEPT !.current_trade_percentage = GrowPercentage(old) ]
    ELSE [ ts EXCEPT !.current_trade_percentage = TRADE_PERCENTAGE ]

\* The condition under which check_daily_loss_limit returns False:
\* loss_pct = daily_loss / initial_daily_balance * 100, compared without the
\* division (initial_daily_balance > 0 on this path).
LimitReached_StreakOff(ts) ==
    /\ ts.initial_daily_balance > 0
    /\ \/ ts.daily_loss * 100 >= DAILY_LOSS_LIMIT * ts.initial_daily_balance
       \/ ts.consecutive_losses > GATE_LOSSES

LimitReached(ts) ==
    /\ ts.initial_daily_balance > 0
    /\ \/ ts.daily_loss * 100 >= DAILY_LOSS_LIMIT * ts.initial_daily_balance
       \/ ts.consecutive_losses >= GATE_LOSSES

check_daily_loss_limit_ClearsStreak(ts, balance) ==
    IF LimitReached(ts)
    THEN [ ret |-> FALSE,
           ts |-> [ ts EXCEPT !.current_trade_percentage =
                                  ShrinkPercentage(@),
                              !.consecutive_losses = 0 ] ]
    ELSE [ ret |-> TRUE, ts |-> ts ]

\* Returns [ret, ts]: the boolean result and the state it leaves.
check_daily_loss_limit(ts, balance) ==
    IF LimitReached(ts)
    THEN [ ret |-> FALSE,
           ts |-> [ ts EXCEPT !.current_trade_percentage =
                                  ShrinkPercentage(@) ] ]
    ELSE [ ret |-> TRUE, ts |-> ts ]

----------------------------------------------------------------------------
(* Indicator snapshots.  A snapshot is a dict from names to values; every  *)
(* value is a record: Num(n) for a number, Unavailable for None, or a dict *)
(* of sub-values for a structured indicator.                               *)

Num(n) == [ value |-> n ]
Unavailable == [ none |-> TRUE ]
IsNone(x) == "none" \in DOMAIN x
EmptyDict == << >>

\* Float comparisons: every comparison with a NaN operand is False.
Lt(a, b) == a # NaN /\ b # NaN /\ a < b
Gt(a, b) == a # NaN /\ b # NaN /\ a > b
Le(a, b) == a # NaN /\ b # NaN /\ a <= b
Ge(a, b) == a # NaN /\ b # NaN /\ a >= b

\* indicators.get(name): a number, or None for a missing key or a None value.
Scalar(ind, name) ==
    IF name \in DOMAIN ind /\ ~IsNone(ind[name]) THEN ind[name].value ELSE None

\* indicators.get(name, {}).get(sub): the default {} applies to a missing
\* key only; a key that holds None yields None.get(sub), an AttributeError.
SubRaises(ind, name) == name \in DOMAIN ind /\ IsNone(ind[name])
Sub(ind, name, sub) ==
    IF name \in DOMAIN ind /\ sub \in DOMAIN ind[name]
    THEN ind[name][sub] ELSE None

----------------------------------------------------------------------------
(* Signal strategies, trade.py:84-141.  A result is "call", "put", "none"  *)
(* (Python's None) or "raise" (the call raised).                           *)

\* price >= sma * 0.99
PriceAtLeastSma_Strict(price, sma) ==
    price # NaN /\ sma # NaN /\ price * 100 > sma * 99

PriceAtLeastSma(price, sma) ==
    price # NaN /\ sma # NaN /\ price * 100 >= sma * 99

is_trade_signal_trend(ind, price) ==
    IF SubRaises(ind, "STOCHASTIC") \/ SubRaises(ind, "MACD") THEN "raise"
    ELSE
    LET rsi == Scalar(ind, "RSI")
        sma == Scalar(ind, "SMA")
        stoch_k == Sub(ind, "STOCHASTIC", "k")
        stoch_d == Sub(ind, "STOCHASTIC", "d")
        macd == Sub(ind, "MACD", "macd")
        signal == Sub(ind, "MACD", "signal")
        bb_upper == Scalar(ind, "BB_upper")
        bb_lower == Scalar(ind, "BB_lower")
    IN
    IF None \in {rsi, sma, stoch_k, stoch_d, bb_upper, bb_lower} THEN "none"
    ELSE IF MACD_INDICATOR /\ (macd = None \/ signal = None) THEN "none"
    ELSE IF MACD_INDICATOR
    THEN IF /\ Lt(rsi, RSI_BUY_THRESHOLD)
            /\ Lt(stoch_k, STOCHASTIC_BUY_THRESHOLD)
            /\ PriceAtLeastSma(price, sma)
            /\ Gt(price, bb_lower)
            /\ Gt(macd, signal)
         THEN "call"
         ELSE IF /\ Gt(rsi, RSI_SELL_THRESHOLD)
                 /\ Gt(stoch_k, STOCHASTIC_SELL_THRESHOLD)
                 /\ Lt(price, bb_upper)
                 /\ Lt(macd, signal)
         THEN "put"
         ELSE "none"
    ELSE IF /\ Lt(rsi, RSI_BUY_THRESHOLD)
            /\ Lt(stoch_k, STOCHASTIC_BUY_THRESHOLD)
            /\ PriceAtLeastSma(price, sma)
            /\ Gt(price, bb_lower)
         THEN "call"
         ELSE IF /\ Gt(rsi, RSI_SELL_THRESHOLD)
                 /\ Gt(stoch_k, STOCHASTIC_SELL_THRESHOLD)
                 /\ Lt(price, bb_upper)
         THEN "put"
         ELSE "none"

is_trade_signal_reversal(ind, price) ==
    IF SubRaises(ind, "STOCHASTIC") THEN "raise"
    ELSE
    LET rsi == Scalar(ind, "RSI")
        stoch_k == Sub(ind, "STOCHASTIC", "k")
    IN
    IF rsi = None \/ stoch_k = None THEN "none"
    ELSE IF Le(rsi, 20) /\ Le(stoch_k, 20) THEN "call"
    ELSE IF Ge(rsi, 80) /\ Ge(stoch_k, 80) THEN "put"
    ELSE "none"

is_trade_signal_breakout(ind, price) ==
    LET sma == Scalar(ind, "SMA")
        ema == Scalar(ind, "EMA")
    IN
    IF sma = None \/ ema = None THEN "none"
    ELSE IF Gt(price, sma) /\ Gt(price, ema) THEN "call"
    ELSE IF Lt(price, sma) /\ Lt(price, ema) THEN "put"
    ELSE "none"

get_signal_for_strategy(strategy, ind, price) ==
    IF strategy = "trend" THEN is_trade_signal_trend(ind, price)
    ELSE IF strategy = "reversal" THEN is_trade_signal_reversal(ind, price)
    ELSE IF strategy = "breakout" THEN is_trade_signal_breakout(ind, price)
    ELSE "none"

----------------------------------------------------------------------------
(* Indicator pipeline, indicators.py.                                      *)
(*                                                                         *)
(* A candle series is a record: n is its length and the other fields are   *)
(* the last elements talib computes from it (RSI, SMA, EMA, STOCH, MACD,   *)
(* BBANDS), so the same series always yields the same values.  A field may *)
(* be NaN, or Raises when the talib call raises.  [] is NoCandles.         *)

RSI_INDICATOR == TRUE
SMA_INDICATOR == TRUE
EMA_INDICATOR == TRUE
STOCHASTIC_INDICATOR == TRUE
RSI_PERIOD == 14
SMA_PERIOD == 20
EMA_PERIOD == 20
STOCHASTIC_K_PERIOD == 14
MACD_SLOW_PERIOD == 26
RSI_MIN == 0
RSI_MAX == 100
SMA_MIN == 0
SMA_MAX == 100000
EMA_MIN == 0
EMA_MAX == 100000

\* indicators.py:61, the fixed Bollinger period.
BOLLINGER_PERIOD == 50
\* indicators.py:23, TTL of the candle cache in seconds.
CANDLE_TTL == 300
\* indicators.py:26, stop_after_attempt(5).
STOP_ATTEMPTS == 5
\* indicators.py:39, the default timeframe every caller uses.
DEFAULT_TIMEFRAME == 60
\* indicators.py:73, the lower bound of history_size.
MIN_HISTORY == 1800

Raises == -997
NoCandles == [ n |-> 0 ]

\* indicators.py:19-21: a new, empty TTLCache on every call.
get_indicator_cache(timeframe) ==
    [ ttl |-> timeframe * 5, entries |-> << >> ]

\* TTLCache.__contains__: present and not yet expired.
CacheHas(entries, key, ttl, t) ==
    key \in DOMAIN entries /\ t < entries[key].t + ttl

\* TTLCache.__setitem__: expired entries are dropped, the key is (re)set.
\* maxsize=100 is never reached by the keys of a bounded run.
CachePut(entries, key, value, ttl, t) ==
    LET live == { k \in DOMAIN entries : t < entries[k].t + ttl } IN
    [ k \in live \cup {key} |->
        IF k = key THEN [ value |-> value, t |-> t ] ELSE entries[k] ]

\* indicators.py:25-37.  A fetch plan says how client.getcandles answers:
\* `fails` transient errors (timeout, connection error, cancellation), then
\* `final`: "fatal" (another exception), or the candles.  Returns the number
\* of getcandles calls and either "raise" or the candles.
RECURSIVE get_candles_with_retry_From_OneMore(_, _)
get_candles_with_retry_From_OneMore(plan, attempt) ==
    IF attempt > plan.fails
    THEN [ attempts |-> attempt,
           raised |-> (plan.final.kind = "fatal"),
           candles |-> plan.final.candles ]
    ELSE IF attempt > STOP_ATTEMPTS
    THEN [ attempts |-> attempt, raised |-> TRUE, candles |-> NoCandles ]
    ELSE get_candles_with_retry_From_OneMore(plan, attempt + 1)

RECURSIVE get_candles_with_retry_From(_, _)
get_candles_with_retry_From(plan, attempt) ==
    IF attempt > plan.fails
    THEN [ attempts |-> attempt,
           raised |-> (plan.final.kind = "fatal"),
           candles |-> plan.final.candles ]
    ELSE IF attempt >= STOP_ATTEMPTS
    THEN [ attempts |-> attempt, raised |-> TRUE, candles |-> NoCandles ]
    ELSE get_candles_with_retry_From(plan, attempt + 1)

get_candles_with_retry(plan) == get_candles_with_retry_From(plan, 1)

\* indicators.py:50-61: the periods of the configured indicators.
ConfigPeriods ==
    (IF RSI_INDICATOR THEN {RSI_PERIOD} ELSE {})
    \cup (IF SMA_INDICATOR THEN {SMA_PERIOD} ELSE {})
    \cup (IF EMA_INDICATOR THEN {EMA_PERIOD} ELSE {})
    \cup (IF STOCHASTIC_INDICATOR THEN {STOCHASTIC_K_PERIOD} ELSE {})
    \cup (IF MACD_INDICATOR THEN {MACD_SLOW_PERIOD} ELSE {})
    \cup {BOLLINGER_PERIOD}

max_period == CHOOSE p \in ConfigPeriods : \A q \in ConfigPeriods : q <= p

history_size(timeframe) == Max(MIN_HISTORY, timeframe * (max_period * 3))

\* indicators.py:113-117: a single value is kept when it lies in
\* [min_val, max_val] (a NaN fails both comparisons); indicators.py:119-121:
\* a raising computation stores None.
SingleValue(v, min_val, max_val) ==
    IF v = Raises THEN Unavailable
    ELSE IF Le(min_val, v) /\ Le(v, max_val) THEN Num(v)
    ELSE Unavailable

\* indicators.py:108-112: a dict is kept when every value is a float and
\* not None; talib returns numpy floats, NaN included, so the test passes
\* for every computed value.
StructValue(d) ==
    IF \E f \in DOMAIN d : d[f] = Raises THEN Unavailable
    ELSE IF \A f \in DOMAIN d : d[f] # None THEN d
    ELSE Unavailable

\* indicators.py:90-121: the snapshot of one instrument.
Snapshot(c) ==
    LET names == (IF RSI_INDICATOR THEN {"RSI"} ELSE {})
                 \cup (IF SMA_INDICATOR THEN {"SMA"} ELSE {})
                 \cup (IF EMA_INDICATOR THEN {"EMA"} ELSE {})
                 \cup (IF STOCHASTIC_INDICATOR THEN {"STOCHASTIC"} ELSE {})
                 \cup (IF MACD_INDICATOR THEN {"MACD"} ELSE {})
                 \cup {"BOLLINGER"}
    IN
    [ name \in names |->
        CASE name = "RSI" -> SingleValue(c.rsi, RSI_MIN, RSI_MAX)
          [] name = "SMA" -> SingleValue(c.sma, SMA_MIN, SMA_MAX)
          [] name = "EMA" -> SingleValue(c.ema, EMA_MIN, EMA_MAX)
          [] name = "STOCHASTIC" -> StructValue([ k |-> c.k, d |-> c.d ])
          [] name = "MACD" ->
               StructValue([ macd |-> c.macd, signal |-> c.signal ])
          [] name = "BOLLINGER" ->
               StructValue([ BB_upper |-> c.upper, BB_lower |-> c.lower ]) ]

\* cache_key_candles = f"{asset}_{timeframe}_{history_size}"
CandleKey(asset, timeframe) == << asset, timeframe, history_size(timeframe) >>

\* cache_key = f"{timeframe}_{','.join(sorted(assets))}": the timeframe and
\* the instruments with their multiplicities, whatever their order.
BatchKey(lst, timeframe) ==
    << timeframe,
       [ a \in { lst[i] : i \in DOMAIN lst } |->
           Cardinality({ i \in DOMAIN lst : lst[i] = a }) ] >>

\* indicators.py:70-124, the loop body for the instruments lst[i..]: acc
\* holds results, the candle cache and the counts of getcandles calls and
\* cache writes so far.
RECURSIVE ProcessAssets_AbortOnRaise(_, _, _, _, _, _)
ProcessAssets_AbortOnRaise(acc, lst, plans, i, timeframe, t) ==
    IF i > Len(lst) THEN acc
    ELSE
    LET asset == lst[i]
        key == CandleKey(asset, timeframe)
        cached == CacheHas(acc.cache, key, CANDLE_TTL, t)
        fetch == get_candles_with_retry(plans[i])
        raised == ~cached /\ fetch.raised
        candles == IF cached THEN acc.cache[key].value ELSE fetch.candles
        cache1 == IF cached \/ raised THEN acc.cache
                  ELSE CachePut(acc.cache, key, candles, CANDLE_TTL, t)
        skip == raised \/ candles.n = 0 \/ candles.n < max_period
        acc1 == [ results |->
                    IF skip THEN acc.results
                    ELSE [ acc.results EXCEPT ![asset] = Snapshot(candles) ],
                  cache |-> cache1,
                  fetches |-> acc.fetches
                                + (IF cached THEN 0 ELSE fetch.attempts),
                  writes |-> acc.writes
                               + (IF cached \/ raised THEN 0 ELSE 1) ]
    IN IF raised THEN acc1
       ELSE ProcessAssets_AbortOnRaise(acc1, lst, plans, i + 1, timeframe, t)

RECURSIVE ProcessAssets(_, _, _, _, _, _)
ProcessAssets(acc, lst, plans, i, timeframe, t) ==
    IF i > Len(lst) THEN acc
    ELSE
    LET asset == lst[i]
        key == CandleKey(asset, timeframe)
        cached == CacheHas(acc.cache, key, CANDLE_TTL, t)
        fetch == get_candles_with_retry(plans[i])
        raised == ~cached /\ fetch.raised
        candles == IF cached THEN acc.cache[key].value ELSE fetch.candles
        cache1 == IF cached \/ raised THEN acc.cache
                  ELSE CachePut(acc.cache, key, candles, CANDLE_TTL, t)
        skip == raised \/ candles.n = 0 \/ candles.n < max_period
        acc1 == [ results |->
                    IF skip THEN acc.results
                    ELSE [ acc.results EXCEPT ![asset] = Snapshot(candles) ],
                  cache |-> cache1,
                  fetches |-> acc.fetches
                                + (IF cached THEN 0 ELSE fetch.attempts),
                  writes |-> acc.writes
                               + (IF cached \/ raised THEN 0 ELSE 1) ]
    IN ProcessAssets(acc1, lst, plans, i + 1, timeframe, t)

\* indicators.py:44-128, the call for a non-empty list.  The batch cache is
\* the one get_indicator_cache has just created.
CalculateBatch(cache, lst, timeframe, plans, t) ==
    LET indicator_cache == get_indicator_cache(timeframe)
        cache_key == BatchKey(lst, timeframe)
    IN
    IF CacheHas(indicator_cache.entries, cache_key, indicator_cache.ttl, t)
    THEN [ results |-> indicator_cache.entries[cache_key].value,
           cache |-> cache, fetches |-> 0, writes |-> 0, hit |-> TRUE ]
    ELSE
    LET acc == ProcessAssets(
                 [ results |-> [ a \in { lst[i] : i \in DOMAIN lst } |->
                                   EmptyDict ],
                   cache |-> cache, fetches |-> 0, writes |-> 0 ],
                 lst, plans, 1, timeframe, t)
    IN [ results |-> acc.results, cache |-> acc.cache,
         fetches |-> acc.fetches,
         \* indicator_cache[cache_key] = results
         writes |-> acc.writes + 1, hit |-> FALSE ]

calculate_indicators_NoEmptyCheck(cache, lst, timeframe, plans, t) ==
    CalculateBatch(cache, lst, timeframe, plans, t)

\* indicators.py:39-128.
calculate_indicators(cache, lst, timeframe, plans, t) ==
    IF lst = << >>
    THEN [ results |-> EmptyDict, cache |-> cache, fetches |-> 0,
           writes |-> 0, hit |-> FALSE ]
    ELSE CalculateBatch(cache, lst, timeframe, plans, t)

----------------------------------------------------------------------------
(* Inputs the environment supplies.                                        *)

\* Wall-clock time at start-up, in seconds since the epoch (far above any
\* cooldown): 21:59:00 UTC, so that the first cycle starts in hour 21 and
\* the next one, TRADE_COOLDOWN later, in hour 22.
StartTime == 165540

\* Account balances the broker reports, in cents: 0.00, 0.49, 30.33 and
\* 200000.00 USD.
Balances == {0, 49, 3033, 20000000}

\* Stakes and profits a reconciliation can report, in cents.
Amounts == {AMOUNT_MIN, 152, AMOUNT_MAX}
Profits == {80, AMOUNT_MAX}

Instruments == {"A", "B"}

NoGate == [ called |-> FALSE, ret |-> TRUE, balance |-> 0,
            pre |-> TradingState, post |-> TradingState ]
NoCalc == [ called |-> FALSE, assets |-> << >>, results |-> << >>,
            fetches |-> 0, writes |-> 0, hit |-> FALSE, t |-> 0,
            repeat |-> FALSE, first |-> << >> ]

\* Candle series the broker can return.
SeriesLow ==
    [ n |-> 60, rsi |-> 15, sma |-> 100, ema |-> 100, k |-> 10, d |-> 12,
      macd |-> 1, signal |-> 0, upper |-> 105, lower |-> 95 ]
SeriesHigh ==
    [ n |-> 60, rsi |-> 85, sma |-> 100, ema |-> 100, k |-> 90, d |-> 88,
      macd |-> 0, signal |-> 1, upper |-> 105, lower |-> 95 ]
SeriesShort == [ SeriesLow EXCEPT !.n = 10 ]
\* talib.RSI and talib.STOCH raise on this series; the SMA is NaN.
SeriesBroken ==
    [ SeriesHigh EXCEPT !.rsi = Raises, !.k = Raises, !.sma = NaN ]
\* The last candle of this series has a NaN close, max and min: every
\* value talib computes from it is NaN.
SeriesNaN ==
    [ n |-> 60, rsi |-> NaN, sma |-> NaN, ema |-> NaN, k |-> NaN, d |-> NaN,
      macd |-> NaN, signal |-> NaN, upper |-> NaN, lower |-> NaN ]

Fetched(c) == [ fails |-> 0, final |-> [ kind |-> "ok", candles |-> c ] ]
FetchFatal ==
    [ fails |-> 0, final |-> [ kind |-> "fatal", candles |-> NoCandles ] ]
FetchRetried(k, c) ==
    [ fails |-> k, final |-> [ kind |-> "ok", candles |-> c ] ]
\* k transient errors, then a non-transient one.
FetchRetriedFatal(k) == [ FetchFatal EXCEPT !.fails = k ]

\* Answers of client.getcandles over the attempts of one fetch: candles,
\* an empty response, a non-transient error.
FetchPlans == { Fetched(SeriesLow), Fetched(NoCandles), FetchFatal }

\* Instrument lists of up to n entries, repetitions included.
ListsUpTo(n) == UNION { [ 1..k -> Instruments ] : k \in 0..n }
NoSig == [ ind |-> << >>, price |-> 0, out |-> "-" ]
\* No client.buy call yet in this cycle; `blocked` says whether the
\* daily-loss gate has returned False in this cycle.
NoBuy == [ called |-> FALSE, blocked |-> FALSE, stored |-> FALSE, id |-> 0,
           amount |-> 0, pct |-> 0, balance |-> 0, at |-> TradingState ]
\* A monitoring pass: the state and the number of open orders it started
\* with, and the orders whose price crossed the band calculate_indicators
\* computed; reset and balance say whether execute_trades made the daily
\* reset before the pass, and with which balance.
NoPass ==
    [ stops |-> {}, pre |-> TradingState, n |-> 0, done |-> FALSE,
      checked |-> 0, closed |-> {}, faulted |-> {}, outcomes |-> {},
      reset |-> FALSE, balance |-> 0 ]
\* The connection was up when checked (or the step checked nothing): no
\* reconnection attempt, no wait.
NoConn == [ ret |-> TRUE, attempts |-> 0, waited |-> 0 ]

\* The state after the modules are imported: trading_state constructed,
\* the caches empty, no cycle started.
InitCommon ==
    /\ trading_state = TradingState
    /\ candle_cache = << >>
    /\ pc = "idle"
    /\ now = 0
    /\ assets = << >>
    /\ indicators = << >>
    /\ idx = 0
    /\ to_remove = << >>
    /\ clock = StartTime
    /\ next_id = 1
    /\ cycles = 0
    /\ calls = 0
    /\ gate = NoGate
    /\ start_time_cycle = 0
    /\ buy_log = NoBuy
    /\ pass_log = NoPass
    /\ calc = NoCalc
    /\ batch_log = << >>
    /\ sig = NoSig
    /\ conn = NoConn
    /\ op = "init"

cycleVars == <<pc, now, assets, indicators, idx, to_remove, next_id, cycles,
               start_time_cycle, buy_log, pass_log, conn>>
cacheVars == <<candle_cache, calc, batch_log>>
cfgVars == <<STRATEGY, MACD_INDICATOR>>

----------------------------------------------------------------------------
(* Harness of the TradingState methods: any sequence of reset_daily,       *)
(* update_loss, update_win, adjust_trade_percentage and                    *)
(* check_daily_loss_limit calls on the instance.                           *)

StateFrame ==
    /\ calls < MaxCalls
    /\ calls' = calls + 1
    /\ UNCHANGED <<cycleVars, cacheVars, cfgVars, clock, sig>>

CallResetDaily ==
    /\ StateFrame
    /\ \E balance \in Balances, t \in {StartTime, StartTime + DAY} :
         trading_state' = reset_daily(trading_state, balance, t)
    /\ op' = "reset_daily"
    /\ UNCHANGED gate

CallUpdateLoss ==
    /\ StateFrame
    /\ \E amount \in Amounts :
         trading_state' = update_loss(trading_state, amount)
    /\ op' = "update_loss"
    /\ UNCHANGED gate

CallUpdateWin ==
    /\ StateFrame
    /\ \E profit \in Profits :
         trading_state' = update_win(trading_state, profit)
    /\ op' = "update_win"
    /\ UNCHANGED gate

CallAdjust ==
    /\ StateFrame
    /\ trading_state' = adjust_trade_percentage(trading_state)
    /\ op' = "adjust_trade_percentage"
    /\ UNCHANGED gate

CallCheckLimit ==
    /\ StateFrame
    /\ \E balance \in Balances :
         LET r == check_daily_loss_limit(trading_state, balance) IN
         /\ trading_state' = r.ts
         /\ gate' = [ called |-> TRUE, ret |-> r.ret, balance |-> balance,
                      pre |-> trading_state, post |-> r.ts ]
    /\ op' = "check_daily_loss_limit"

InitState ==
    /\ InitCommon
    /\ STRATEGY = "trend"
    /\ MACD_INDICATOR = FALSE

NextState ==
    \/ CallResetDaily
    \/ CallUpdateLoss
    \/ CallUpdateWin
    \/ CallAdjust
    \/ CallCheckLimit

SpecState == InitState /\ [][NextState]_vars

----------------------------------------------------------------------------
(* C2: check_daily_loss_limit returns False exactly when                   *)
(* daily_loss / initial_daily_balance * 100 >= DAILY_LOSS_LIMIT or         *)
(* consecutive_losses >= 3, in every state with a positive                 *)
(* initial_daily_balance, and returns True whenever initial_daily_balance  *)
(* is 0.  The percentage comparison is stated without the division.        *)
C2_GateResult ==
    gate.called =>
        /\ gate.pre.initial_daily_balance > 0 =>
             ( (gate.ret = FALSE) <=>
                 \/ gate.pre.daily_loss * 100
                      >= DAILY_LOSS_LIMIT * gate.pre.initial_daily_balance
                 \/ gate.pre.consecutive_losses >= 3 )
        /\ gate.pre.initial_daily_balance = 0 => gate.ret = TRUE

\* The gate was called with a positive initial balance and a loss below the
\* limit, and returned False on the streak alone.
C2_Witness ==
    /\ gate.called
    /\ gate.ret = FALSE
    /\ gate.pre.initial_daily_balance > 0
    /\ gate.pre.consecutive_losses = 3
    /\ gate.pre.daily_loss * 100
         < DAILY_LOSS_LIMIT * gate.pre.initial_daily_balance

(* C5: with TRADE_PERCENTAGE_MIN <= TRADE_PERCENTAGE <=                    *)
(* TRADE_PERCENTAGE_MAX, current_trade_percentage stays within             *)
(* [TRADE_PERCENTAGE_MIN, TRADE_PERCENTAGE_MAX] in every state reachable   *)
(* by the five methods; an adjustment made while the loss streak is at or  *)
(* above its threshold does not increase the percentage, and one made      *)
(* while the win streak is at or above its threshold does not decrease it. *)
C5_PercentageBounded ==
    /\ [](TRADE_PERCENTAGE_MIN <= trading_state.current_trade_percentage
          /\ trading_state.current_trade_percentage <= TRADE_PERCENTAGE_MAX)
    /\ [][ op' = "adjust_trade_percentage" =>
            /\ trading_state.consecutive_losses
                 >= CONSECUTIVE_LOSSES_THRESHOLD =>
                   trading_state'.current_trade_percentage
                     <= trading_state.current_trade_percentage
            /\ ( trading_state.consecutive_losses
                   < CONSECUTIVE_LOSSES_THRESHOLD
                 /\ trading_state.consecutive_wins
                      >= CONSECUTIVE_WINS_THRESHOLD ) =>
                   trading_state'.current_trade_percentage
                     >= trading_state.current_trade_percentage
         ]_<<trading_state, op, calls>>

\* An adjustment under a loss streak has floored the percentage at the
\* minimum, below the base value.
C5_Witness ==
    /\ op = "adjust_trade_percentage"
    /\ trading_state.consecutive_losses >= CONSECUTIVE_LOSSES_THRESHOLD
    /\ trading_state.current_trade_percentage = TRADE_PERCENTAGE_MIN
    /\ TRADE_PERCENTAGE_MIN < TRADE_PERCENTAGE

(* C6: update_win zeroes consecutive_losses and adds 1 to                  *)
(* consecutive_wins, update_loss zeroes consecutive_wins and adds 1 to     *)
(* consecutive_losses, so at most one of the two counters is above 0 in    *)
(* every reachable state.                                                  *)
C6_StreaksExclusive ==
    /\ [](~(trading_state.consecutive_wins > 0
            /\ trading_state.consecutive_losses > 0))
    /\ [][ /\ op' = "update_win" =>
                /\ trading_state'.consecutive_losses = 0
                /\ trading_state'.consecutive_wins
                     = trading_state.consecutive_wins + 1
           /\ op' = "update_loss" =>
                /\ trading_state'.consecutive_wins = 0
                /\ trading_state'.consecutive_losses
                     = trading_state.consecutive_losses + 1
         ]_<<trading_state, op, calls>>

\* A win has just ended a loss streak of two.
C6_Witness ==
    /\ op = "update_win"
    /\ trading_state.consecutive_wins = 1
    /\ trading_state.consecutive_losses = 0
    /\ trading_state.daily_loss > 0

C22_GateFrame ==
    /\ gate.called =>
         LET old == gate.pre
             new == gate.post
         IN /\ gate.ret => new = old
            /\ ~gate.ret =>
                 /\ new.current_trade_percentage * 10
                      = Max(TRADE_PERCENTAGE_MIN * 10,
                            old.current_trade_percentage * 3)
                 /\ [ new EXCEPT !.current_trade_percentage =
                                    old.current_trade_percentage ] = old
            /\ new.daily_loss = old.daily_loss
            /\ new.consecutive_losses = old.consecutive_losses
            /\ new.consecutive_wins = old.consecutive_wins
            /\ new.open_orders = old.open_orders
            /\ new.last_trade_time = old.last_trade_time
    /\ op = "check_daily_loss_limit" =>
         (gate.called /\ trading_state = gate.post)

\* The gate returned False on a loss of more than the limit after one
\* loss, and cut the base percentage down to the minimum.
C22_Witness ==
    /\ op = "check_daily_loss_limit"
    /\ ~gate.ret
    /\ gate.pre.consecutive_losses = 1
    /\ gate.pre.current_trade_percentage = TRADE_PERCENTAGE
    /\ gate.post.current_trade_percentage = TRADE_PERCENTAGE_MIN
    /\ TRADE_PERCENTAGE_MIN < TRADE_PERCENTAGE
    /\ trading_state = gate.post

----------------------------------------------------------------------------
(* Harness of calculate_indicators: calls with any instrument list at the  *)
(* default timeframe, any answers of the broker, and time passing between  *)
(* the calls.                                                              *)

\* The observation of one call.  batch_log keeps, per batch key, the call a
\* batch cache would be holding: the latest call made outside the TTL
\* window of the one logged before it.
Observe(lst, r, t) ==
    LET key == BatchKey(lst, DEFAULT_TIMEFRAME)
        ttl == get_indicator_cache(DEFAULT_TIMEFRAME).ttl
        repeat == lst # << >> /\ CacheHas(batch_log, key, ttl, t)
    IN [ calc |-> [ called |-> TRUE, assets |-> lst, results |-> r.results,
                    fetches |-> r.fetches, writes |-> r.writes,
                    hit |-> r.hit, t |-> t, repeat |-> repeat,
                    first |-> IF repeat THEN batch_log[key].value
                              ELSE << >> ],
         log |-> IF lst = << >> \/ repeat THEN batch_log
                 ELSE CachePut(batch_log, key, r.results, ttl, t) ]

\* A call made d seconds after the previous one.
CallCalculate ==
    /\ \E lst \in ListsUpTo(MaxWork - calls) :
       \E plans \in [ 1..Len(lst) -> FetchPlans ], d \in {1, CANDLE_TTL} :
         LET t == clock + d
             r == calculate_indicators(candle_cache, lst, DEFAULT_TIMEFRAME,
                                       plans, t)
             o == Observe(lst, r, t)
         IN /\ calls + Max(1, Len(lst)) <= MaxWork
            /\ calls' = calls + Max(1, Len(lst))
            /\ clock' = t
            /\ candle_cache' = r.cache
            /\ calc' = o.calc
            /\ batch_log' = o.log
    /\ op' = "calculate_indicators"
    /\ UNCHANGED <<cycleVars, cfgVars, trading_state, gate, sig>>

InitInd ==
    /\ InitCommon
    /\ STRATEGY = "trend"
    /\ MACD_INDICATOR = FALSE

NextInd == CallCalculate

SpecInd == InitInd /\ [][NextInd]_vars

(* C7: calculate_indicators called with an empty instrument list returns   *)
(* an empty mapping, makes no client.getcandles call and writes to no      *)
(* cache, whatever the caches hold.                                        *)
C7_EmptyList ==
    /\ []( (calc.called /\ calc.assets = << >>) =>
             /\ calc.results = << >>
             /\ calc.fetches = 0
             /\ calc.writes = 0 )
    /\ [][ (op' = "calculate_indicators" /\ calc'.assets = << >>) =>
             candle_cache' = candle_cache
         ]_<<calc, candle_cache, op, calls>>

\* The empty list was passed while the candle cache held an entry.
C7_Witness ==
    /\ op = "calculate_indicators"
    /\ calc.assets = << >>
    /\ DOMAIN candle_cache # {}

(* C8: a calculate_indicators call with the timeframe and the instrument   *)
(* set of an earlier call, made within the TTL window of that call, makes  *)
(* no client.getcandles call and returns the earlier call's mapping,       *)
(* whatever the fetch outcomes of the earlier call were.                   *)
C8_RepeatIsCacheHit ==
    (calc.called /\ calc.repeat) =>
        /\ calc.fetches = 0
        /\ calc.results = calc.first

----------------------------------------------------------------------------
(* Harness of one calculate_indicators call on empty caches: any list of   *)
(* one or two instruments and, per instrument, any course of its candle    *)
(* fetch: transient errors before the final answer, and a final answer     *)
(* that is a series, an empty response or a non-transient error.           *)

\* Numbers of transient errors client.getcandles raises before its final
\* answer: none, one, one less than / as many as / more than the attempts
\* tenacity makes.
FetchFails == {0, 1, STOP_ATTEMPTS - 1, STOP_ATTEMPTS, STOP_ATTEMPTS + 1}
FetchSeries ==
    {SeriesLow, SeriesHigh, SeriesShort, SeriesBroken, SeriesNaN, NoCandles}
FetchCourses ==
    { FetchRetried(k, c) : k \in FetchFails, c \in FetchSeries }
    \cup { FetchRetriedFatal(k) : k \in FetchFails }
FetchLists == { << "A" >>, << "A", "B" >>, << "B", "A" >>, << "A", "A" >> }

CallFetch ==
    /\ ~calc.called
    /\ \E lst \in FetchLists :
       \E plans \in [ 1..Len(lst) -> FetchCourses ] :
         LET t == clock + 1
             r == calculate_indicators(candle_cache, lst, DEFAULT_TIMEFRAME,
                                       plans, t)
         IN /\ calls' = calls + Len(lst)
            /\ clock' = t
            /\ candle_cache' = r.cache
            /\ calc' = [ called |-> TRUE, assets |-> lst, plans |-> plans,
                         results |-> r.results, fetches |-> r.fetches,
                         writes |-> r.writes, hit |-> r.hit, t |-> t ]
    /\ op' = "calculate_indicators"
    /\ UNCHANGED <<cycleVars, cfgVars, trading_state, gate, sig, batch_log>>

NextFetch == CallFetch

SpecFetch == InitInd /\ [][NextFetch]_vars

(* C12: within one calculate_indicators call (empty caches, distinct       *)
(* instruments) client.getcandles is called, for each instrument, once     *)
(* more than the number of transient errors it raises before its final     *)
(* answer, and never more than 5 times: 5 times when the transient errors  *)
(* go on, f + 1 times when the answer after f < 5 transient errors is a    *)
(* success or a non-transient error (f = 0: exactly once).  When the fetch *)
(* fails either way the call still returns, the instrument has the empty   *)
(* snapshot and nothing is cached for it.                                  *)
C12_RetryBound ==
    (calc.called /\ Cardinality({ calc.assets[i] : i \in DOMAIN calc.assets })
                     = Len(calc.assets)) =>
        LET Attempts(p) == IF p.fails >= 5 THEN 5 ELSE p.fails + 1
            Failed(p) == p.fails >= 5 \/ p.final.kind = "fatal"
            lst == calc.assets
        IN /\ calc.fetches
                = Attempts(calc.plans[1])
                  + (IF Len(lst) = 2 THEN Attempts(calc.plans[2]) ELSE 0)
           /\ \A i \in DOMAIN lst :
                Failed(calc.plans[i]) =>
                   /\ lst[i] \in DOMAIN calc.results
                   /\ calc.results[lst[i]] = EmptyDict
                   /\ CandleKey(lst[i], DEFAULT_TIMEFRAME)
                         \notin DOMAIN candle_cache

\* The fetch of the only instrument kept failing with transient errors: 5
\* attempts were made and the call returned the empty snapshot.
C12_Witness ==
    /\ calc.called
    /\ calc.assets = << "A" >>
    /\ calc.plans[1].fails > STOP_ATTEMPTS
    /\ calc.fetches = STOP_ATTEMPTS
    /\ calc.results["A"] = EmptyDict

(* C13: a calculate_indicators call with a non-empty list returns a        *)
(* mapping whose keys are exactly the requested instruments.  An           *)
(* instrument whose fetch fails, or whose series is empty or shorter than  *)
(* the longest configured period, has the empty snapshot; an indicator     *)
(* whose computation raises is unavailable in the snapshot while the       *)
(* other indicators of the instrument are computed.  In a list of two      *)
(* different instruments the snapshot of each is the one a call with that  *)
(* instrument alone returns, whatever happens to the other.                *)
C13_BatchIsolation ==
    calc.called =>
        LET lst == calc.assets
            Failed(p) == p.fails >= STOP_ATTEMPTS \/ p.final.kind = "fatal"
            Skipped(p) == \/ Failed(p)
                          \/ p.final.candles.n = 0
                          \/ p.final.candles.n < max_period
            Alone(i) == calculate_indicators(<< >>, << lst[i] >>,
                                             DEFAULT_TIMEFRAME,
                                             << calc.plans[i] >>, calc.t)
        IN /\ DOMAIN calc.results = { lst[i] : i \in DOMAIN lst }
           /\ (Len(lst) = 1 \/ lst[1] # lst[2]) =>
                \A i \in DOMAIN lst :
                   LET p == calc.plans[i]
                       snap == calc.results[lst[i]]
                   IN /\ Skipped(p) => snap = EmptyDict
                      /\ ~Skipped(p) =>
                           /\ DOMAIN snap = {"RSI", "SMA", "EMA",
                                             "STOCHASTIC", "BOLLINGER"}
                           /\ p.final.candles.rsi = Raises
                                => snap.RSI = Unavailable
                           /\ p.final.candles.k = Raises
                                => snap.STOCHASTIC = Unavailable
                           /\ p.final.candles.ema \notin {Raises, NaN}
                                => snap.EMA = Num(p.final.candles.ema)
                      /\ snap = Alone(i).results[lst[i]]

\* The fetch of the first instrument failed and two indicators of the
\* second raised; the second still has its other indicators.
C13_Witness ==
    /\ calc.called
    /\ calc.assets = << "A", "B" >>
    /\ calc.plans[1] = FetchFatal
    /\ calc.plans[2] = Fetched(SeriesBroken)
    /\ calc.results["A"] = EmptyDict
    /\ calc.results["B"].RSI = Unavailable
    /\ calc.results["B"].EMA = Num(SeriesBroken.ema)

(* C24: in the snapshot calculate_indicators computes for an instrument,   *)
(* RSI, SMA and EMA hold the computed value when it is a number within the *)
(* configured [min, max] of the indicator and are unavailable otherwise;   *)
(* the stochastic pair and the Bollinger bands hold the computed           *)
(* sub-values when every one of them is a finite number and are            *)
(* unavailable when a sub-value is NaN (or the computation raised).        *)
C24_IndicatorValidation ==
    (calc.called /\ Cardinality({ calc.assets[i] : i \in DOMAIN calc.assets })
                     = Len(calc.assets)) =>
        \A i \in DOMAIN calc.assets :
            LET c == calc.plans[i].final.candles
                snap == calc.results[calc.assets[i]]
                Finite(v) == v \notin {NaN, Raises}
                Single(v, lo, hi) ==
                    IF Finite(v) /\ lo <= v /\ v <= hi
                    THEN Num(v) ELSE Unavailable
            IN snap # EmptyDict =>
                 /\ snap.RSI = Single(c.rsi, RSI_MIN, RSI_MAX)
                 /\ snap.SMA = Single(c.sma, SMA_MIN, SMA_MAX)
                 /\ snap.EMA = Single(c.ema, EMA_MIN, EMA_MAX)
                 /\ snap.STOCHASTIC =
                      (IF Finite(c.k) /\ Finite(c.d)
                       THEN [ k |-> c.k, d |-> c.d ] ELSE Unavailable)
                 /\ snap.BOLLINGER =
                      (IF Finite(c.upper) /\ Finite(c.lower)
                       THEN [ BB_upper |-> c.upper, BB_lower |-> c.lower ]
                       ELSE Unavailable)

----------------------------------------------------------------------------
(* Harness of the signal strategies: get_signal_for_strategy applied to a  *)
(* snapshot and a price drawn from the sets below, under any strategy name *)
(* and either MACD setting.                                                *)

FullSnapshot(rsi, k, m) ==
    [ RSI |-> Num(rsi), SMA |-> Num(100), EMA |-> Num(102),
      STOCHASTIC |-> [ k |-> k, d |-> 20 ],
      MACD |-> [ macd |-> m[1], signal |-> m[2] ],
      BB_upper |-> Num(105), BB_lower |-> Num(95) ]

Without(ind, name) == [ n \in DOMAIN ind \ {name} |-> ind[n] ]

SigSnapshots ==
    { FullSnapshot(rsi, k, m) :
        rsi \in {25, 30, 50, 70, 75}, k \in {15, 20, 50, 80, 85},
        m \in { <<1, 0>>, <<0, 1>>, <<1, 1>> } }
    \cup { Without(FullSnapshot(25, 15, <<1, 0>>), name) :
             name \in {"RSI", "SMA", "EMA", "STOCHASTIC", "MACD",
                       "BB_upper", "BB_lower"} }
    \cup { [ FullSnapshot(25, 15, <<1, 0>>) EXCEPT ![name] = Unavailable ] :
             name \in {"RSI", "SMA", "EMA", "STOCHASTIC", "MACD",
                       "BB_upper", "BB_lower"} }

SigPrices == {94, 95, 98, 99, 101, 105, 106}

Evaluate ==
    /\ sig.out = "-"
    /\ sig' = [ sig EXCEPT !.out =
                  get_signal_for_strategy(STRATEGY, sig.ind, sig.price) ]
    /\ op' = "get_signal_for_strategy"
    /\ UNCHANGED <<cycleVars, cacheVars, cfgVars, trading_state, gate,
                   clock, calls>>

InitSignal ==
    /\ trading_state = TradingState
    /\ candle_cache = << >>
    /\ pc = "idle"
    /\ now = 0
    /\ assets = << >>
    /\ indicators = << >>
    /\ idx = 0
    /\ to_remove = << >>
    /\ clock = StartTime
    /\ next_id = 1
    /\ cycles = 0
    /\ calls = 0
    /\ gate = NoGate
    /\ start_time_cycle = 0
    /\ buy_log = NoBuy
    /\ pass_log = NoPass
    /\ conn = NoConn
    /\ calc = NoCalc
    /\ batch_log = << >>
    /\ op = "init"
    /\ STRATEGY \in {"trend", "reversal", "breakout", "scalping"}
    /\ MACD_INDICATOR \in BOOLEAN
    \* A snapshot has a MACD entry only when MACD is enabled
    \* (indicators.py:59-60).
    /\ \E s \in SigSnapshots, price \in SigPrices :
         sig = [ ind |-> IF MACD_INDICATOR THEN s ELSE Without(s, "MACD"),
                 price |-> price, out |-> "-" ]

NextSignal == Evaluate

SpecSignal == InitSignal /\ [][NextSignal]_vars

\* RSI, SMA, %K, %D and both bands are present and not None, and so are
\* the MACD line and signal when MACD is enabled.
TrendInputsAvailable(ind) ==
    /\ \A name \in {"RSI", "SMA", "BB_upper", "BB_lower", "STOCHASTIC"} :
         name \in DOMAIN ind /\ ~IsNone(ind[name])
    /\ MACD_INDICATOR => ("MACD" \in DOMAIN ind /\ ~IsNone(ind["MACD"]))

(* C10: for a snapshot in which RSI, SMA, %K, %D and both bands are        *)
(* available (and the MACD line and signal when MACD is enabled),          *)
(* is_trade_signal_trend returns call exactly when RSI < buy-threshold,    *)
(* %K < stochastic buy-threshold, price >= 0.99 x SMA, price > lower band  *)
(* and (MACD disabled or macd > signal); otherwise put exactly when        *)
(* RSI > sell-threshold, %K > stochastic sell-threshold, price < upper     *)
(* band and (MACD disabled or macd < signal); otherwise none.  With        *)
(* RSI=25, SMA=100, %K=15, %D=20, bands (95, 105) and MACD disabled the    *)
(* result is call at price 101 and none at price 94.                       *)
C10_TrendSignal ==
    (sig.out # "-" /\ STRATEGY = "trend" /\ TrendInputsAvailable(sig.ind)) =>
        LET ind == sig.ind
            price == sig.price
            buy == /\ ind["RSI"].value < RSI_BUY_THRESHOLD
                   /\ ind["STOCHASTIC"].k < STOCHASTIC_BUY_THRESHOLD
                   /\ 100 * price >= 99 * ind["SMA"].value
                   /\ price > ind["BB_lower"].value
                   /\ (~MACD_INDICATOR
                       \/ ind["MACD"].macd > ind["MACD"].signal)
            sell == /\ ind["RSI"].value > RSI_SELL_THRESHOLD
                    /\ ind["STOCHASTIC"].k > STOCHASTIC_SELL_THRESHOLD
                    /\ price < ind["BB_upper"].value
                    /\ (~MACD_INDICATOR
                        \/ ind["MACD"].macd < ind["MACD"].signal)
            example == /\ ind["RSI"].value = 25
                       /\ ind["SMA"].value = 100
                       /\ ind["STOCHASTIC"] = [ k |-> 15, d |-> 20 ]
                       /\ ind["BB_lower"].value = 95
                       /\ ind["BB_upper"].value = 105
                       /\ ~MACD_INDICATOR
        IN /\ (sig.out = "call") <=> buy
           /\ (sig.out = "put") <=> (~buy /\ sell)
           /\ (sig.out = "none") <=> (~buy /\ ~sell)
           /\ (example /\ price = 101) => sig.out = "call"
           /\ (example /\ price = 94) => sig.out = "none"

\* The trend strategy answered call at the lowest price that satisfies
\* price >= 0.99 x SMA, with MACD enabled.
C10_Witness ==
    /\ STRATEGY = "trend"
    /\ MACD_INDICATOR
    /\ TrendInputsAvailable(sig.ind)
    /\ sig.price = 99
    /\ sig.out = "call"

(* C23: get_signal_for_strategy returns none, and does not raise, when an  *)
(* indicator its strategy requires is unavailable in the snapshot, as a    *)
(* missing key or as a key that holds None: RSI, SMA, the stochastic pair, *)
(* both bands (and MACD when enabled) for trend, RSI and the stochastic    *)
(* pair for reversal, SMA and EMA for breakout; and it returns none        *)
(* without raising for every other strategy name.                          *)
C23_NoSignalWithoutIndicators ==
    sig.out # "-" =>
        LET ind == sig.ind
            Missing(name) == name \notin DOMAIN ind \/ IsNone(ind[name])
            required ==
                IF STRATEGY = "trend"
                THEN {"RSI", "SMA", "STOCHASTIC", "BB_upper", "BB_lower"}
                     \cup (IF MACD_INDICATOR THEN {"MACD"} ELSE {})
                ELSE IF STRATEGY = "reversal" THEN {"RSI", "STOCHASTIC"}
                ELSE IF STRATEGY = "breakout" THEN {"SMA", "EMA"}
                ELSE {}
        IN /\ (\E name \in required : Missing(name)) => sig.out = "none"
           /\ STRATEGY \notin {"trend", "reversal", "breakout"}
                => sig.out = "none"

----------------------------------------------------------------------------
(* The trading cycle: the main loop, main.py:90-155, and execute_trades,   *)
(* trade.py:143-247.  One action per loop iteration; pc says where the     *)
(* cycle stands.                                                           *)

\* Realtime prices the broker streams; None stands for no price data.
Prices == {94, 106}
\* client.buy answers: (True, id), (False, message), or an exception.
BuyAnswers == {"accept", "reject", "raise"}
\* What getprofile reports of an order: still open, closed with a profit,
\* closed without one, or the call raises.
OrderStatuses == {"open", "win", "loss", "raise"}
\* The profit of an order closed with a profit, in cents.
WinProfit == 80
\* Broker calls of an entry iteration that can raise outside a try block.
EntryFaults == {"none", "subscribe", "getprofile"}
\* Instrument lists list_open_otc_assets hands to a cycle.
CycleLists == { << "A" >>, << "A", "A" >>, << "A", "B" >>, << "B", "A" >> }
\* Answers of client.getcandles within a trading cycle.
CyclePlans == { Fetched(SeriesLow), FetchFatal }
\* Balances getprofile reports when a trading day starts.
DayBalances == {0, 3033}

\* round((pct / 100) * balance, 2): the whole cent nearest to
\* pct * balance / 10^4, a tie going to the even cent.  The product is
\* taken in two parts to stay within 32-bit integers.
RoundedStake(pct, balance) ==
    LET q == balance \div 10000
        r == balance % 10000
        whole == pct * q + (pct * r) \div 10000
        rest == (pct * r) % 10000
    IN IF rest > 5000 \/ (rest = 5000 /\ whole % 2 = 1)
       THEN whole + 1
       ELSE whole

OrderAmount_NoCap(pct, balance) ==
    Max(AMOUNT_MIN, RoundedStake(pct, balance))

\* trade.py:229-230: max(1.0, min(5000.0, amount)).
OrderAmount(pct, balance) ==
    Max(AMOUNT_MIN, Min(AMOUNT_MAX, RoundedStake(pct, balance)))

HasOpenOrder_Never(ts, asset) == FALSE

\* trade.py:195: any(o['asset'] == asset for o in open_orders).
HasOpenOrder(ts, asset) ==
    \E i \in DOMAIN ts.open_orders : ts.open_orders[i].asset = asset

InCooldown_Inclusive(ts, asset, t) ==
    t - Get(ts.last_trade_time, asset, 0) <= TRADE_COOLDOWN

\* trade.py:198.
InCooldown(ts, asset, t) ==
    t - Get(ts.last_trade_time, asset, 0) < TRADE_COOLDOWN

BandOf_Nested(snap, name) == Sub(snap, "BOLLINGER", name)

\* trade.py:158-159: current_indicators.get(asset, {}).get("BB_upper"), a
\* look-up at the top level of the snapshot.
BandOf(snap, name) == Scalar(snap, name)

\* trade.py:155-188, one iteration of the monitoring loop.  fault: subscribe
\* raises.  Returns the state, the orders appended to to_remove, whether
\* the iteration reached asyncio.sleep(1), the number of update_loss and
\* update_win calls it made, and whether it ended in the except clause.
MonitorOrder(ts, order, snap, fault, price, status) ==
    LET bb_upper == BandOf(snap, "BB_upper")
        bb_lower == BandOf(snap, "BB_lower")
        stop == \/ (order.direction = "call" /\ Lt(price, bb_lower))
                \/ (order.direction = "put" /\ Gt(price, bb_upper))
        ts1 == IF stop THEN update_loss(ts, order.amount) ELSE ts
        marks1 == IF stop THEN << order >> ELSE << >>
        calls1 == IF stop THEN 1 ELSE 0
    IN
    IF fault
    THEN [ ts |-> ts, marks |-> << order >>, slept |-> FALSE,
           calls |-> 0, raised |-> TRUE ]
    ELSE IF price = None \/ price = 0 \/ bb_upper = None \/ bb_lower = None
    THEN [ ts |-> ts, marks |-> << >>, slept |-> TRUE,
           calls |-> 0, raised |-> FALSE ]
    ELSE IF status = "raise"
    THEN [ ts |-> ts1, marks |-> Append(marks1, order), slept |-> TRUE,
           calls |-> calls1, raised |-> TRUE ]
    ELSE IF status = "win"
    THEN [ ts |-> update_win(ts1, WinProfit),
           marks |-> Append(marks1, order), slept |-> TRUE,
           calls |-> calls1 + 1, raised |-> FALSE ]
    ELSE IF status = "loss"
    THEN [ ts |-> update_loss(ts1, order.amount),
           marks |-> Append(marks1, order), slept |-> TRUE,
           calls |-> calls1 + 1, raised |-> FALSE ]
    ELSE [ ts |-> ts1, marks |-> marks1, slept |-> TRUE,
           calls |-> calls1, raised |-> FALSE ]

RemoveAll_Skipped(ts, orders) == ts

\* trade.py:189-190: remove_order for every order of to_remove.
RECURSIVE RemoveAll(_, _)
RemoveAll(ts, orders) ==
    IF orders = << >> THEN ts
    ELSE RemoveAll(remove_order(ts, Head(orders)), Tail(orders))

\* The price crossed the band calculate_indicators computed for the order's
\* instrument, and the broker reports the order as still open.
StopDue(order, snap, fault, price, status) ==
    /\ ~fault
    /\ price # None
    /\ status = "open"
    /\ \/ /\ order.direction = "call"
          /\ Sub(snap, "BOLLINGER", "BB_lower") # None
          /\ Lt(price, Sub(snap, "BOLLINGER", "BB_lower"))
       \/ /\ order.direction = "put"
          /\ Sub(snap, "BOLLINGER", "BB_upper") # None
          /\ Gt(price, Sub(snap, "BOLLINGER", "BB_upper"))

\* trade.py:194-247, one iteration of the entry loop, as the values the
\* iteration leaves: the state, whether execute_trades goes on, whether the
\* iteration reached asyncio.sleep(1), the buy and gate observations, the
\* next order id and the branch taken.
EntryIteration(ts, asset, data, t, price, fault, balance, answer, id, log) ==
    LET direction == get_signal_for_strategy(STRATEGY, data, price)
        \* trade.py:219-220, the row written to signals_log.csv
        row_raises == SubRaises(data, "STOCHASTIC") \/ SubRaises(data, "MACD")
        amount == OrderAmount(ts.current_trade_percentage, balance)
        g == check_daily_loss_limit(ts, balance)
        order == [ id |-> id, asset |-> asset, direction |-> direction,
                   amount |-> amount, open_price |-> price ]
        bought == [ called |-> TRUE, blocked |-> log.blocked,
                    stored |-> (answer = "accept"), id |-> id,
                    amount |-> amount, pct |-> ts.current_trade_percentage,
                    balance |-> balance, at |-> g.ts ]
        skip == [ ts |-> ts, go |-> TRUE, slept |-> FALSE, log |-> log,
                  id |-> id, op |-> "skip" ]
    IN
    IF HasOpenOrder(ts, asset) THEN [ skip EXCEPT !.op = "skip_open" ]
    ELSE IF InCooldown(ts, asset, t)
    THEN [ skip EXCEPT !.op = "skip_cooldown" ]
    ELSE IF fault = "subscribe"
    THEN [ skip EXCEPT !.op = "abort", !.go = FALSE ]
    ELSE IF price = None
    THEN [ skip EXCEPT !.op = "skip_price", !.slept = TRUE ]
    ELSE IF direction = "raise" \/ row_raises
    THEN [ skip EXCEPT !.op = "abort", !.go = FALSE, !.slept = TRUE ]
    ELSE IF direction = "none"
    THEN [ skip EXCEPT !.op = "no_signal", !.slept = TRUE ]
    ELSE IF fault = "getprofile"
    THEN [ skip EXCEPT !.op = "abort", !.go = FALSE, !.slept = TRUE ]
    ELSE IF amount < AMOUNT_MIN
    THEN [ skip EXCEPT !.op = "invalid_amount", !.slept = TRUE ]
    ELSE IF ~g.ret
    THEN [ skip EXCEPT !.op = "limit_reached", !.slept = TRUE, !.ts = g.ts,
                       !.log = [ log EXCEPT !.blocked = TRUE ] ]
    ELSE IF answer = "accept"
    THEN [ ts |-> update_trade_time(add_order(g.ts, order), asset, t),
           go |-> TRUE, slept |-> TRUE, log |-> bought, id |-> id + 1,
           op |-> "buy" ]
    ELSE [ ts |-> g.ts, go |-> TRUE, slept |-> TRUE, log |-> bought,
           id |-> id, op |-> "buy" ]

\* What an entry iteration reads from the broker before it ends: nothing
\* (the instrument is passed over), the price, or the price, the balance
\* and the answer to the order.
EntryReadsPrice(ts, asset, t) ==
    ~HasOpenOrder(ts, asset) /\ ~InCooldown(ts, asset, t)

EntryReadsBalance(data, price, fault) ==
    /\ fault = "none"
    /\ price # None
    /\ get_signal_for_strategy(STRATEGY, data, price) \in {"call", "put"}
    /\ ~(SubRaises(data, "STOCHASTIC") \/ SubRaises(data, "MACD"))

\* main.py:47, reconnect(client, max_attempts=5).
MAX_ATTEMPTS == 5
\* Outages of the broker link, as the number of connection checks in a row
\* that fail from the moment main checks the connection: none, one that
\* the first reconnection attempt ends, one that outlasts reconnect.
Outages == {0, 1, MAX_ATTEMPTS + 1}

\* main.py:37-45: the k-th connection check of an outage.
check_connection(outage, k) == k > outage

\* main.py:62: the wait after a failed attempt, in seconds.
ReconnectDelay(attempt) == Min(5 * 2^attempt, 60)

\* main.py:47-65: the attempts from `attempt` on; waited is the time slept
\* so far.
RECURSIVE reconnect_From(_, _, _)
reconnect_From(outage, attempt, waited) ==
    IF attempt > MAX_ATTEMPTS
    THEN [ ret |-> FALSE, attempts |-> attempt - 1, waited |-> waited ]
    ELSE IF check_connection(outage, attempt + 1)
    THEN [ ret |-> TRUE, attempts |-> attempt, waited |-> waited ]
    ELSE reconnect_From(outage, attempt + 1,
                        waited + ReconnectDelay(attempt))

reconnect(outage) == reconnect_From(outage, 1, 0)

\* main.py:103-107 and 139-143: check the connection, reconnect when it is
\* down.  ret = FALSE is the case in which main returns.
EnsureConnected(outage) ==
    IF check_connection(outage, 1) THEN NoConn ELSE reconnect(outage)

OnCycleError_Propagates == "stopped"

\* main.py:145-146: an exception raised inside the cycle is logged and the
\* loop goes on to the wait that ends the cycle.
OnCycleError == "idle"

\* main.py:148-155: the cycle ends by sleeping until TRADE_COOLDOWN has
\* passed since it started.
AfterWait(t, start) == Max(t, start + TRADE_COOLDOWN)

\* Time the loop spends, before a cycle that finds instruments, in cycles
\* that find none (main.py:114-115): none, or as many as bring the start of
\* the cycle to one day after the start of the cycle before.
IdleTimes == {0, DAY - TRADE_COOLDOWN}

\* main.py:92: datetime.now(timezone.utc).hour.
utc_hour(t) == (t \div 3600) % 24

\* main.py:93: `22 <= utc_hour <= 2`, a chained comparison.
LowLiquidity(hour) == 22 <= hour /\ hour <= 2

\* main.py:95: asyncio.sleep(3600).
LOW_LIQUIDITY_SLEEP == 3600

\* main.py:91-137: an iteration of the loop up to the call of
\* execute_trades.  pause: cycles that find no instrument (main.py:114-115)
\* change nothing but the clock and are passed over in one step.  fault: an
\* exception before execute_trades is reached, which the loop catches
\* (main.py:145).
MainCycle ==
    /\ pc = "idle"
    /\ \E lst \in { l \in CycleLists : calls + Len(l) <= MaxEntries },
          pause \in (IF cycles = 0 THEN {0} ELSE IdleTimes),
          outage \in Outages,
          fault \in BOOLEAN :
       \E plans \in [ 1..Len(lst) -> CyclePlans ] :
         LET t == clock + pause
             c == EnsureConnected(outage)
             t1 == t + c.waited
             r == calculate_indicators(candle_cache, lst, DEFAULT_TIMEFRAME,
                                       plans, t1)
         IN /\ start_time_cycle' = t
            /\ IF LowLiquidity(utc_hour(t))
               THEN /\ pc' = "idle"
                    /\ op' = "pause"
                    /\ clock' = t + LOW_LIQUIDITY_SLEEP
                    /\ conn' = NoConn
                    /\ UNCHANGED <<candle_cache, assets, indicators, calls,
                                   cycles>>
               ELSE /\ conn' = c
                    /\ cycles' = cycles + 1
                    /\ IF ~c.ret
                       THEN /\ pc' = "stopped"
                            /\ op' = "reconnect_failed"
                            /\ clock' = t1
                            /\ UNCHANGED <<candle_cache, assets, indicators,
                                           calls>>
                       ELSE IF fault
                       THEN /\ pc' = OnCycleError
                            /\ op' = "cycle_error"
                            /\ clock' = AfterWait(t1, t)
                            /\ candle_cache' = r.cache
                            /\ calls' = calls + Len(lst)
                            /\ UNCHANGED <<assets, indicators>>
                       ELSE /\ pc' = "execute"
                            /\ op' = "cycle"
                            /\ clock' = t1 + Len(lst)
                            /\ candle_cache' = r.cache
                            /\ calls' = calls + Len(lst)
                            /\ assets' = lst
                            /\ indicators' = r.results
    /\ UNCHANGED <<trading_state, now, idx, to_remove, next_id, gate,
                   buy_log, pass_log, calc, batch_log, sig, cfgVars>>

ResetDue_Strict(ts, t) ==
    ts.last_reset_time = None \/ t - ts.last_reset_time > DAY

\* trade.py:149.
ResetDue(ts, t) ==
    ts.last_reset_time = None \/ t - ts.last_reset_time >= DAY

\* trade.py:144-153.  fault: getprofile raises.
ExecStart ==
    /\ pc = "execute"
    /\ now' = clock
    /\ \E balance \in DayBalances, fault \in BOOLEAN :
         LET due == ResetDue(trading_state, clock)
         IN IF due /\ fault
            THEN /\ pc' = OnCycleError
                 /\ op' = "abort"
                 /\ clock' = AfterWait(clock, start_time_cycle)
                 /\ UNCHANGED <<trading_state, idx, to_remove, buy_log,
                                pass_log>>
            ELSE LET ts == IF due
                           THEN reset_daily(trading_state, balance, clock)
                           ELSE trading_state
                 IN /\ trading_state' = ts
                    /\ pc' = "monitor"
                    /\ op' = "execute_trades"
                    /\ idx' = 1
                    /\ to_remove' = << >>
                    /\ buy_log' = NoBuy
                    /\ pass_log' = [ NoPass EXCEPT
                                       !.pre = ts,
                                       !.n = Len(ts.open_orders),
                                       !.reset = due,
                                       !.balance = IF due THEN balance
                                                   ELSE 0 ]
                    /\ UNCHANGED clock
    /\ conn' = NoConn
    /\ UNCHANGED <<candle_cache, assets, indicators, next_id, cycles,
                   calls, gate, start_time_cycle, calc, batch_log, sig,
                   cfgVars>>

\* trade.py:154-188, one iteration.  The broker is asked for candles only
\* when the cache holds none.  status is what the broker's record of the
\* order says at the time of the iteration, read or not ("raise": asking
\* for it raises).
MonitorStep ==
    /\ pc = "monitor"
    /\ idx <= Len(trading_state.open_orders)
    /\ LET order == trading_state.open_orders[idx]
           cached == CacheHas(candle_cache,
                              CandleKey(order.asset, DEFAULT_TIMEFRAME),
                              CANDLE_TTL, clock)
       IN
       \E plan \in (IF cached THEN {FetchFatal} ELSE CyclePlans),
          fault \in BOOLEAN :
       \E price \in (IF fault THEN {None} ELSE Prices \cup {None}) :
         LET r == calculate_indicators(candle_cache, << order.asset >>,
                                       DEFAULT_TIMEFRAME, << plan >>, clock)
             snap == Get(r.results, order.asset, EmptyDict)
             reads == /\ ~fault
                      /\ price # None
                      /\ BandOf(snap, "BB_upper") # None
                      /\ BandOf(snap, "BB_lower") # None
         IN
         \E status \in (IF reads THEN OrderStatuses
                        ELSE IF fault THEN {"open"}
                        ELSE OrderStatuses \ {"raise"}) :
           LET m == MonitorOrder(trading_state, order, snap, fault, price,
                                 status)
           IN /\ trading_state' = m.ts
              /\ to_remove' = to_remove \o m.marks
              /\ candle_cache' = r.cache
              /\ clock' = clock + (IF m.slept THEN 1 ELSE 0)
              /\ pass_log' =
                   [ pass_log EXCEPT
                       !.stops = IF StopDue(order, snap, fault, price, status)
                                 THEN @ \cup {order} ELSE @,
                       !.checked = @ + 1,
                       !.closed = IF ~fault /\ status \in {"win", "loss"}
                                  THEN @ \cup {order} ELSE @,
                       !.faulted = IF m.raised THEN @ \cup {order} ELSE @,
                       !.outcomes = IF m.calls > 0
                                    THEN @ \cup { << order, m.calls >> }
                                    ELSE @ ]
    /\ idx' = idx + 1
    /\ op' = "monitor"
    /\ conn' = NoConn
    /\ UNCHANGED <<pc, now, assets, indicators, next_id, cycles, calls, gate,
                   start_time_cycle, buy_log, calc, batch_log, sig, cfgVars>>

\* trade.py:189-192.
MonitorEnd ==
    /\ pc = "monitor"
    /\ idx > Len(trading_state.open_orders)
    /\ trading_state' =
         adjust_trade_percentage(RemoveAll(trading_state, to_remove))
    /\ pass_log' = [ pass_log EXCEPT !.done = TRUE ]
    /\ pc' = "entry"
    /\ idx' = 1
    /\ op' = "adjust_trade_percentage"
    /\ conn' = NoConn
    /\ UNCHANGED <<candle_cache, now, assets, indicators, to_remove, clock,
                   next_id, cycles, calls, gate, start_time_cycle, buy_log,
                   calc, batch_log, sig, cfgVars>>

\* trade.py:194-247, one iteration.
EntryStep ==
    /\ pc = "entry"
    /\ idx <= Len(assets)
    /\ LET asset == assets[idx]
           data == Get(indicators, asset, EmptyDict)
           reads == EntryReadsPrice(trading_state, asset, now)
       IN
       \E price \in (IF reads THEN Prices \cup {None} ELSE {None}),
          fault \in (IF reads THEN EntryFaults ELSE {"none"}) :
       \E balance \in (IF reads /\ EntryReadsBalance(data, price, fault)
                       THEN Balances ELSE {0}),
          answer \in (IF reads /\ EntryReadsBalance(data, price, fault)
                      THEN BuyAnswers ELSE {"reject"}) :
         LET e == EntryIteration(trading_state, asset, data, now, price,
                                 fault, balance, answer, next_id, buy_log)
         IN /\ trading_state' = e.ts
            /\ pc' = IF e.go THEN "entry" ELSE OnCycleError
            /\ clock' = LET t == clock + (IF e.slept THEN 1 ELSE 0)
                        IN IF e.go THEN t
                           ELSE AfterWait(t, start_time_cycle)
            /\ buy_log' = e.log
            /\ next_id' = e.id
            /\ op' = e.op
    /\ idx' = idx + 1
    /\ conn' = NoConn
    /\ UNCHANGED <<candle_cache, now, assets, indicators, to_remove, cycles,
                   calls, gate, start_time_cycle, pass_log, calc, batch_log,
                   sig, cfgVars>>

\* execute_trades returns to the main loop, which checks the connection
\* once more (main.py:139-143) and waits for the end of the cycle.
ExecEnd ==
    /\ pc = "entry"
    /\ idx > Len(assets)
    /\ \E outage \in Outages :
         LET c == EnsureConnected(outage)
         IN /\ conn' = c
            /\ IF c.ret
               THEN /\ pc' = "idle"
                    /\ op' = "return"
                    /\ clock' = AfterWait(clock + c.waited, start_time_cycle)
               ELSE /\ pc' = "stopped"
                    /\ op' = "reconnect_failed"
                    /\ clock' = clock + c.waited
    /\ UNCHANGED <<trading_state, candle_cache, now, assets, indicators, idx,
                   to_remove, next_id, cycles, calls, gate,
                   start_time_cycle, buy_log, pass_log, calc, batch_log, sig,
                   cfgVars>>

Init ==
    /\ InitCommon
    /\ STRATEGY \in {"trend", "reversal", "breakout"}
    /\ MACD_INDICATOR = FALSE

Next ==
    \/ MainCycle
    \/ ExecStart
    \/ MonitorStep
    \/ MonitorEnd
    \/ EntryStep
    \/ ExecEnd

Spec == Init /\ [][Next]_vars

\* The main loop as the program schedules it: one coroutine runs a cycle
\* and every call and sleep it awaits returns, so a cycle that has started
\* takes its next step.
FairSpec ==
    Spec /\ WF_vars(ExecStart \/ MonitorStep \/ MonitorEnd \/ EntryStep
                      \/ ExecEnd)

(* C1: in every state reachable by execute_trades cycles, with any         *)
(* instrument list (lists that repeat an instrument included), any signals *)
(* and any answers of the broker, no two orders of                         *)
(* trading_state.open_orders are on the same instrument.                   *)
C1_OneOrderPerInstrument ==
    \A i, j \in DOMAIN trading_state.open_orders :
        i # j => trading_state.open_orders[i].asset
                   # trading_state.open_orders[j].asset

\* In a second cycle, past the cooldown, an instrument that holds an open
\* order was passed over by the entry loop.
C1_Witness ==
    /\ op = "skip_open"
    /\ cycles = 2
    /\ Len(trading_state.open_orders) = 1
    /\ ~InCooldown(trading_state, assets[idx - 1], now)

C4_AmountClamped ==
    /\ buy_log.called =>
         /\ AMOUNT_MIN <= buy_log.amount /\ buy_log.amount <= AMOUNT_MAX
         /\ LET q == buy_log.balance \div 10000
                r == buy_log.balance % 10000
                base == buy_log.pct * q
                part == buy_log.pct * r
            IN \E n \in base .. (base + part \div 10000 + 1) :
                 /\ 2 * ((n - base) * 10000 - part) <= 10000
                 /\ 2 * (part - (n - base) * 10000) <= 10000
                 /\ buy_log.amount
                      = (IF n < AMOUNT_MIN THEN AMOUNT_MIN
                         ELSE IF n > AMOUNT_MAX THEN AMOUNT_MAX ELSE n)
         /\ buy_log.stored =>
              \E i \in DOMAIN trading_state.open_orders :
                 /\ trading_state.open_orders[i].id = buy_log.id
                 /\ trading_state.open_orders[i].amount = buy_log.amount
    /\ \A i \in DOMAIN trading_state.open_orders :
         /\ AMOUNT_MIN <= trading_state.open_orders[i].amount
         /\ trading_state.open_orders[i].amount <= AMOUNT_MAX

\* An order was stored whose amount the upper clamp bound cut down.
C4_Witness ==
    /\ op = "buy"
    /\ buy_log.stored
    /\ buy_log.amount = AMOUNT_MAX
    /\ buy_log.balance = 20000000
    /\ \E i \in DOMAIN trading_state.open_orders :
         trading_state.open_orders[i].amount = AMOUNT_MAX

(* C9: after a monitoring pass in which the price of an open call order    *)
(* was below the lower Bollinger band calculate_indicators computed for    *)
(* its instrument (a put order: above the upper band), the order is no     *)
(* longer in open_orders; when it was the only open order,                 *)
(* consecutive_losses is 1 higher than before the pass, consecutive_wins   *)
(* is 0 and daily_loss is higher by the order's amount.                    *)
C9_TrailingStop ==
    pass_log.done =>
        \A o \in pass_log.stops :
            /\ \A i \in DOMAIN trading_state.open_orders :
                 trading_state.open_orders[i] # o
            /\ pass_log.n = 1 =>
                 /\ trading_state.consecutive_losses
                      = pass_log.pre.consecutive_losses + 1
                 /\ trading_state.consecutive_wins = 0
                 /\ trading_state.daily_loss
                      = pass_log.pre.daily_loss + o.amount

(* C11: an entry attempt that calls client.buy either stores exactly one   *)
(* order on the attempted instrument at the end of open_orders and sets    *)
(* last_trade_time of that instrument to `now`, the time execute_trades    *)
(* took when the cycle's pass started, leaving every other field of the    *)
(* state alone (the broker answered (accepted, order id)); or, when the    *)
(* broker refuses, returns no id or raises, leaves the whole state         *)
(* unchanged.  In both cases the entry loop goes on to the next            *)
(* instrument of the list.                                                 *)
C11_SubmissionOutcome ==
    [][ (pc = "entry" /\ op' = "buy") =>
          LET asset == assets[idx]
              old == trading_state
              new == trading_state'
              n == Len(old.open_orders)
          IN /\ pc' = "entry"
             /\ idx' = idx + 1
             /\ assets' = assets
             /\ buy_log'.called
             /\ IF buy_log'.stored
                THEN /\ Len(new.open_orders) = n + 1
                     /\ SubSeq(new.open_orders, 1, n) = old.open_orders
                     /\ new.open_orders[n + 1].asset = asset
                     /\ Cardinality({ i \in DOMAIN new.open_orders :
                                        new.open_orders[i].asset = asset }) = 1
                     /\ DOMAIN new.last_trade_time
                          = DOMAIN old.last_trade_time \cup {asset}
                     /\ new.last_trade_time[asset] = now
                     /\ \A a \in DOMAIN old.last_trade_time \ {asset} :
                          new.last_trade_time[a] = old.last_trade_time[a]
                     /\ [ new EXCEPT !.open_orders = old.open_orders,
                                     !.last_trade_time = old.last_trade_time ]
                          = old
                ELSE new = old
    ]_vars

\* The broker did not accept the order of the first instrument of a list
\* of two, and the second instrument is still to be attempted.
C11_Witness ==
    /\ op = "buy"
    /\ buy_log.called
    /\ ~buy_log.stored
    /\ pc = "entry"
    /\ idx = 2
    /\ Len(assets) = 2

(* C14: an error raised inside a trading cycle (before execute_trades is   *)
(* reached, by the profile query of the daily reset, or in the entry loop  *)
(* outside its try block) leaves the main loop at its head, ready for the  *)
(* next cycle; main returns only from a reconnection whose 5 attempts all  *)
(* failed; and every cycle that has started comes to its end (the loop     *)
(* head, or that return).                                                  *)
C14_LoopSurvivesErrors ==
    /\ [][ /\ (pc' = "stopped" /\ pc # "stopped") =>
                /\ op' = "reconnect_failed"
                /\ ~conn'.ret
                /\ conn'.attempts = 5
           /\ op' \in {"cycle_error", "abort"} => pc' = "idle"
         ]_vars
    /\ (pc \in {"execute", "monitor", "entry"})
          ~> (pc \in {"idle", "stopped"})

\* The profile query of the daily reset raised in a second cycle and the
\* loop is back at its head.
C14_Witness ==
    /\ op = "abort"
    /\ pc = "idle"
    /\ cycles = 2
    /\ now > StartTime + DAY

(* C15: after a monitoring pass, no order whose broker record was closed   *)
(* when the pass checked it (and whose check did not raise) is still in    *)
(* open_orders, whether or not a price and the bands were available; when  *)
(* it was the only open order, the pass counted exactly one outcome:       *)
(* either consecutive_wins or consecutive_losses is 1 and the other 0.     *)
C15_ClosedOrderReconciled ==
    pass_log.done =>
        \A o \in pass_log.closed :
            /\ \A i \in DOMAIN trading_state.open_orders :
                 trading_state.open_orders[i] # o
            /\ pass_log.n = 1 =>
                 trading_state.consecutive_wins
                   + trading_state.consecutive_losses
                   = pass_log.pre.consecutive_wins
                     + pass_log.pre.consecutive_losses + 1

C17_BandsReachConsumers ==
    \A a \in DOMAIN indicators :
        LET snap == indicators[a] IN
        ("BOLLINGER" \in DOMAIN snap /\ snap["BOLLINGER"] # Unavailable) =>
            /\ Scalar(snap, "BB_upper") # None
            /\ Scalar(snap, "BB_lower") # None
            /\ BandOf(snap, "BB_upper") # None
            /\ BandOf(snap, "BB_lower") # None

C21_DailyReset ==
    [][ pc = "execute" =>
          LET old == trading_state
              new == trading_state'
              due == \/ old.last_reset_time = None
                     \/ now' - old.last_reset_time >= 86400
          IN /\ op' \in {"execute_trades", "abort"}
             /\ op' = "execute_trades" =>
                  /\ pass_log'.reset <=> due
                  /\ due =>
                       /\ new.initial_daily_balance = pass_log'.balance
                       /\ new.daily_loss = 0
                       /\ new.consecutive_losses = 0
                       /\ new.consecutive_wins = 0
                       /\ new.current_trade_percentage = TRADE_PERCENTAGE
                       /\ new.last_reset_time = now'
                       /\ new.open_orders = old.open_orders
                       /\ new.last_trade_time = old.last_trade_time
                  /\ ~due => new = old
                  /\ pc' = "monitor"
                  /\ idx' = 1
                  /\ pass_log'.checked = 0
                  /\ pass_log'.pre = new
             /\ op' = "abort" => (due /\ new = old)
      ]_vars

\* A reset was made exactly 86400 after the one before, with a balance of
\* 30.33, while an order was open: the order and its trade time were kept.
C21_Witness ==
    /\ op = "execute_trades"
    /\ pass_log.reset
    /\ pass_log.balance = 3033
    /\ now = StartTime + 1 + DAY
    /\ trading_state.last_reset_time = now
    /\ trading_state.initial_daily_balance = 3033
    /\ Len(trading_state.open_orders) = 1
    /\ trading_state.last_trade_time[trading_state.open_orders[1].asset]
         = StartTime + 1

(* C26: an iteration of the main loop whose UTC hour is 22, 23, 0, 1 or 2  *)
(* starts no trading cycle: it lists no instrument, computes no indicator  *)
(* and does not call execute_trades, but sleeps for one hour and comes     *)
(* back to the loop head to check the hour again.                          *)
C26_LowLiquidityPause ==
    [][ ( pc = "idle"
          /\ ((start_time_cycle' \div 3600) % 24) \in {22, 23, 0, 1, 2} ) =>
            /\ pc' = "idle"
            /\ op' = "pause"
            /\ clock' = start_time_cycle' + 3600
            /\ UNCHANGED <<trading_state, candle_cache, assets, indicators,
                           calls, cycles>>
      ]_vars

----------------------------------------------------------------------------
(* Harness of the trading cycle after a losing day: the main loop started  *)
(* from a TradingState in which a daily reset with a positive balance was  *)
(* followed by three trades on one instrument, each closed at a loss, and  *)
(* no order is open.                                                       *)

\* trade.py:239-243, 170-175 and 189-190: an order on `asset` accepted at
\* time t, then counted as a loss and removed.
LostTrade(ts, asset, t, amount) ==
    LET order == [ id |-> 0, asset |-> asset, direction |-> "call",
                   amount |-> amount, open_price |-> 100 ]
        opened == update_trade_time(add_order(ts, order), asset, t)
    IN remove_order(update_loss(opened, amount), order)

\* The state three lost trades leave, TRADE_COOLDOWN apart, after a reset at
\* time t with a balance of 30.33.
AfterThreeLosses(t) ==
    LostTrade(LostTrade(LostTrade(reset_daily(TradingState, 3033, t),
                                  "B", t, AMOUNT_MIN),
                        "B", t + TRADE_COOLDOWN, AMOUNT_MIN),
              "B", t + 2 * TRADE_COOLDOWN, AMOUNT_MIN)

\* Times of the reset before the losses: five cycles before the loop is
\* followed, or so that the first cycle followed is one day after it.
HaltResets == { StartTime - 5 * TRADE_COOLDOWN, StartTime + 1 - DAY }

InitHalt ==
    /\ trading_state \in { AfterThreeLosses(t) : t \in HaltResets }
    /\ candle_cache = << >>
    /\ pc = "idle"
    /\ now = 0
    /\ assets = << >>
    /\ indicators = << >>
    /\ idx = 0
    /\ to_remove = << >>
    /\ clock = StartTime
    /\ next_id = 1
    /\ cycles = 0
    /\ calls = 0
    /\ gate = NoGate
    /\ start_time_cycle = 0
    /\ buy_log = NoBuy
    /\ pass_log = NoPass
    /\ calc = NoCalc
    /\ batch_log = << >>
    /\ sig = NoSig
    /\ conn = NoConn
    /\ op = "init"
    /\ STRATEGY \in {"reversal", "breakout"}
    /\ MACD_INDICATOR = FALSE

SpecHalt == InitHalt /\ [][Next]_vars

\* consecutive_losses >= 3 with a positive initial_daily_balance.
Halted(ts) == ts.consecutive_losses >= 3 /\ ts.initial_daily_balance > 0

====
